---- MODULE Spec2Model ----
(***************************************************************************)
(* State-machine model of the Database class of backend/app.py: the task   *)
(* map, the per-column ordered task lists, the category map, the change    *)
(* flag and the backup file.                                               *)
(***************************************************************************)
EXTENDS Integers, Sequences, FiniteSets, TLC

\* ---------------------------------------------------------------- bounds
MaxTasks == 2
MaxIndex == 1
\* PY_SSIZE_T_MAX, which is 2^63 - 1 in CPython, scaled down: list.insert takes
\* an index in -MaxSsize - 1 .. MaxSsize and raises OverflowError outside it
MaxSsize == 3

\* ---------------------------------------------------------------- values
\* Python's None, for the Optional fields and for "no such id".
None == "None"

TaskIds == 1..MaxTasks
\* the task id of a call that names no task
NoTask == 0
ColIds == {"todo", "done"}
CatIds == {"c1", "c2"}
Colors == {"red"}
Indexes == (0 - MaxIndex)..MaxIndex

\* class Task(BaseModel): id, title, description, category_id
Task(id, title, description, category_id) ==
  [id |-> id, title |-> title, description |-> description,
   category_id |-> category_id]

\* class Category(BaseModel): id, name, color
Category(id, name, color) == [id |-> id, name |-> name, color |-> color]

VARIABLES
  tasks_db,     \* Database._tasks_db: task id -> Task
  columns,      \* Database._columns: column id -> list of tasks (by id)
  categories,   \* Database._categories: category id -> Category
  has_changes,  \* Database._has_changes
  file,         \* what is stored at Database._backup_file
  lock,         \* Database._lock: the thread that holds it
  pc,           \* per thread: the call it is in and the statement it is at
  last,         \* the last call: its arguments, its result, the exception it met
  ret,          \* the data the last call returned, for the calls that return data
  unsaved,      \* history: a mutating call returned since the last save or load
  held          \* the result of serialize/get_all_categories a caller has kept

store == <<tasks_db, columns, categories>>
vars == <<tasks_db, columns, categories, has_changes, file, lock, pc, last, ret,
          unsaved, held>>

\* ---------------------------------------------------------------- lists
Min(a, b) == IF a < b THEN a ELSE b
Max(a, b) == IF a > b THEN a ELSE b

\* x in list
Contains(s, x) == \E i \in 1..Len(s) : s[i] = x

\* how often x occurs in list s
Count(s, x) == Cardinality({i \in 1..Len(s) : s[i] = x})

\* list.remove(x): drops the first occurrence of x
RemoveFirst(s, x) ==
  IF ~Contains(s, x) THEN s
  ELSE LET p == CHOOSE i \in 1..Len(s) :
                  s[i] = x /\ \A j \in 1..(i - 1) : s[j] # x
       IN  SubSeq(s, 1, p - 1) \o SubSeq(s, p + 1, Len(s))

\* the 0-based position list.insert(idx, x) puts x at: an index past the end
\* appends, a negative one counts from the end and stops at the front
InsertPos(n, idx) == IF idx < 0 THEN Max(0, n + idx) ELSE Min(idx, n)

\* idx converts to Py_ssize_t
Fits(idx) == idx \in (0 - MaxSsize - 1)..MaxSsize

\* list.insert(idx, x), for an index that fits
InsertAt(s, idx, x) ==
  LET p == InsertPos(Len(s), idx)
  IN  SubSeq(s, 1, p) \o <<x>> \o SubSeq(s, p + 1, Len(s))

\* d[k] = v on a dict
Put(d, k, v) == [x \in DOMAIN d \cup {k} |-> IF x = k THEN v ELSE d[x]]

\* del d[k]
Del(d, k) == [x \in DOMAIN d \ {k} |-> d[x]]

EmptyDict == [x \in {} |-> None]

\* what a call hands back: nothing, or a dict
NoData == [kind |-> "none", data |-> EmptyDict]
Data(d) == [kind |-> "dict", data |-> d]

\* what the backup path holds: no file, text json.load rejects, or a JSON
\* document (an array, or an object with its parsed contents)
NoFile == [kind |-> "absent", data |-> EmptyDict]
Garbage == [kind |-> "garbage", data |-> EmptyDict]
JsonList == [kind |-> "list", data |-> EmptyDict]
JsonObject(d) == [kind |-> "object", data |-> d]

\* ---------------------------------------------------------------- calls
\* res is "ok" for a call that returns, "True"/"False" for the two calls that
\* return a bool, and the exception's name for a call that raises
Call(op, tid, cid, col, idx, res) ==
  [op |-> op, tid |-> tid, cid |-> cid, col |-> col, idx |-> idx, res |-> res,
   exc |-> None]

\* a call of save_to_file/load_from_file that caught exception exc inside
Caught(op, res, exc) ==
  [op |-> op, tid |-> NoTask, cid |-> None, col |-> None, idx |-> 0, res |-> res,
   exc |-> exc]

\* a call of update_task/update_category that returned: its **kwargs as well
Updated(op, tid, cid, kwargs) ==
  [op |-> op, tid |-> tid, cid |-> cid, col |-> None, idx |-> 0, res |-> "ok",
   exc |-> None, kwargs |-> kwargs]

\* faulty variant: _mark_changed() that sets nothing
MarkNothing == has_changes' = has_changes

\* self._mark_changed()
MarkChanged == has_changes' = TRUE

\* the calls that change the store when they return; empty_column changes
\* nothing (and marks nothing) when the column does not exist
Mutation(call) ==
  /\ call.res = "ok"
  /\ \/ call.op \in {"add", "update_task", "move", "delete", "add_category",
                     "update_category", "delete_category"}
     \/ call.op = "empty_column" /\ call.col \in DOMAIN columns

\* a store call returns to its caller: nothing of the file is touched, and no
\* data is handed back
Returns(call) ==
  /\ last' = call
  /\ ret' = NoData
  /\ unsaved' = (unsaved \/ Mutation(call))
  /\ UNCHANGED file

\* faulty variant: the lookup that raises comes after _mark_changed()
RaiseAfterMark(op, tid, cid) ==
  /\ Returns(Call(op, tid, cid, None, 0, "KeyError"))
  /\ MarkChanged
  /\ UNCHANGED <<tasks_db, columns, categories>>

\* a KeyError leaves the with-block before anything is assigned
RaiseKeyError(op, tid, cid) ==
  /\ Returns(Call(op, tid, cid, None, 0, "KeyError"))
  /\ UNCHANGED <<tasks_db, columns, categories, has_changes>>

\* threads: the request handlers and the backup thread
Threads == {"request1", "request2", "backup"}
NoThread == "nobody"
\* where a thread is: the call, the statement it is at, the call's arguments
Frame(op, at, tid, col, idx) ==
  [op |-> op, at |-> at, tid |-> tid, col |-> col, idx |-> idx]
Idle == Frame("idle", "idle", NoTask, None, 0)

\* no result of serialize or get_all_categories is kept by a caller
NoHeld == [of |-> None, shared |-> FALSE, touched |-> FALSE, data |-> EmptyDict]

\* an empty store that has nothing to save (the tests' fresh_db), no thread in
\* a call, and file f at the backup path
Fresh(f) ==
  /\ tasks_db = EmptyDict
  /\ columns = EmptyDict
  /\ categories = EmptyDict
  /\ has_changes = FALSE
  /\ file = f
  /\ lock = NoThread
  /\ pc = [t \in Threads |-> Idle]
  /\ last = Call("init", NoTask, None, None, 0, "ok")
  /\ ret = NoData
  /\ unsaved = FALSE
  /\ held = NoHeld

Init == Fresh(NoFile)

\* a call made with no other thread inside the store
Alone == UNCHANGED <<lock, pc, held>>

\* ---------------------------------------------------------------- task operations
\* faulty variant: the task is put at the head of the column's list
Prepended(cols, column_id, id) ==
  Put(cols, column_id,
      <<id>> \o (IF column_id \in DOMAIN cols THEN cols[column_id] ELSE <<>>))

\* the columns after Database.add's setdefault-and-append
Appended(cols, column_id, id) ==
  Put(cols, column_id,
      (IF column_id \in DOMAIN cols THEN cols[column_id] ELSE <<>>) \o <<id>>)

\* Database.add(t, column_id); the caller passes a fresh id (uuid4)
Add(t, column_id) ==
  /\ t.id \notin DOMAIN tasks_db
  /\ tasks_db' = Put(tasks_db, t.id, t)
  /\ columns' = Appended(columns, column_id, t.id)
  /\ MarkChanged
  /\ Returns(Call("add", t.id, None, column_id, 0, "ok"))
  /\ UNCHANGED categories

\* Database.get(id)
Get(id) ==
  IF id \notin DOMAIN tasks_db
  THEN RaiseKeyError("get", id, None)
  ELSE /\ Returns(Call("get", id, None, None, 0, "ok"))
       /\ UNCHANGED <<tasks_db, columns, categories, has_changes>>

\* the columns a task is found in; the loop stops at the first one in the
\* dict's order, which the model leaves open
Holders(cols, id) ==
  LET hs == {c \in DOMAIN cols : Contains(cols[c], id)}
  IN  IF hs = {} THEN {None} ELSE hs

\* faulty variant: the task is left in the column it was in
RemovedNothing(cols, src, id) == cols

\* for task_list in columns.values(): if task in task_list: remove; break
Removed(cols, src, id) ==
  IF src = None THEN cols ELSE [cols EXCEPT ![src] = RemoveFirst(@, id)]

\* faulty variant: append(task) instead of insert(to_index, task)
InsertedAtEnd(cols, to_column_id, to_index, id) ==
  Put(cols, to_column_id,
      (IF to_column_id \in DOMAIN cols THEN cols[to_column_id] ELSE <<>>) \o <<id>>)

\* if to_column_id not in columns: columns[to] = []; columns[to].insert(idx, task)
Inserted(cols, to_column_id, to_index, id) ==
  Put(cols, to_column_id,
      InsertAt(IF to_column_id \in DOMAIN cols THEN cols[to_column_id] ELSE <<>>,
               to_index, id))

\* if to_column_id not in self._columns: self._columns[to_column_id] = []
Ensured(cols, to_column_id) ==
  IF to_column_id \in DOMAIN cols THEN cols ELSE Put(cols, to_column_id, <<>>)

\* Database.move(id, to_column_id, to_index); insert raises OverflowError on
\* an index that does not fit, after the task was taken out of its column
Move(id, to_column_id, to_index) ==
  IF id \notin DOMAIN tasks_db
  THEN RaiseKeyError("move", id, None)
  ELSE IF ~Fits(to_index)
  THEN /\ \E src \in Holders(columns, id) :
            columns' = Ensured(Removed(columns, src, id), to_column_id)
       /\ Returns(Call("move", id, None, to_column_id, to_index, "OverflowError"))
       /\ UNCHANGED <<tasks_db, categories, has_changes>>
  ELSE /\ \E src \in Holders(columns, id) :
            columns' = Inserted(Removed(columns, src, id), to_column_id, to_index, id)
       /\ MarkChanged
       /\ Returns(Call("move", id, None, to_column_id, to_index, "ok"))
       /\ UNCHANGED <<tasks_db, categories>>

\* faulty variant: the task is taken out of its column and stays in the map
DeleteFromColumnOnly(task_id) ==
  IF task_id \notin DOMAIN tasks_db
  THEN RaiseKeyError("delete", task_id, None)
  ELSE /\ \E src \in Holders(columns, task_id) :
            columns' = Removed(columns, src, task_id)
       /\ MarkChanged
       /\ Returns(Call("delete", task_id, None, None, 0, "ok"))
       /\ UNCHANGED <<tasks_db, categories>>

\* Database.delete(task_id)
Delete(task_id) ==
  IF task_id \notin DOMAIN tasks_db
  THEN RaiseKeyError("delete", task_id, None)
  ELSE /\ tasks_db' = Del(tasks_db, task_id)
       /\ \E src \in Holders(columns, task_id) :
            columns' = Removed(columns, src, task_id)
       /\ MarkChanged
       /\ Returns(Call("delete", task_id, None, None, 0, "ok"))
       /\ UNCHANGED categories

\* faulty variant: the loop deletes nothing from the task map
DelNone(db, s) == [db |-> db, ok |-> TRUE]

\* for task in columns[column_id]: del tasks_db[task.id]
\* the task map after the loop over list s, and whether a del raised KeyError
RECURSIVE DelAll(_, _)
DelAll(db, s) ==
  IF s = <<>> THEN [db |-> db, ok |-> TRUE]
  ELSE IF Head(s) \notin DOMAIN db THEN [db |-> db, ok |-> FALSE]
  ELSE DelAll(Del(db, Head(s)), Tail(s))

\* Database.empty_column(column_id)
EmptyColumn(column_id) ==
  IF column_id \notin DOMAIN columns
  THEN /\ Returns(Call("empty_column", NoTask, None, column_id, 0, "ok"))
       /\ UNCHANGED <<tasks_db, columns, categories, has_changes>>
  ELSE LET r == DelAll(tasks_db, columns[column_id])
       IN  /\ tasks_db' = r.db
           /\ IF r.ok
              THEN /\ columns' = [columns EXCEPT ![column_id] = <<>>]
                   /\ MarkChanged
                   /\ Returns(Call("empty_column", NoTask, None, column_id, 0, "ok"))
              ELSE /\ Returns(Call("empty_column", NoTask, None, column_id, 0, "KeyError"))
                   /\ UNCHANGED <<columns, has_changes>>
           /\ UNCHANGED categories

\* faulty variant: a value of None is skipped
SetAttrsNotNone(rec, kwargs) ==
  [f \in DOMAIN rec |->
     IF f \in DOMAIN kwargs /\ kwargs[f] # None THEN kwargs[f] ELSE rec[f]]

\* for key, value in kwargs.items(): setattr(task, key, value)
SetAttrs(rec, kwargs) ==
  [f \in DOMAIN rec |-> IF f \in DOMAIN kwargs THEN kwargs[f] ELSE rec[f]]

\* Database.update_task(task_id, **kwargs)
UpdateTask(task_id, kwargs) ==
  IF task_id \notin DOMAIN tasks_db
  THEN RaiseKeyError("update_task", task_id, None)
  ELSE /\ tasks_db' = [tasks_db EXCEPT ![task_id] = SetAttrs(@, kwargs)]
       /\ MarkChanged
       /\ Returns(Updated("update_task", task_id, None, kwargs))
       /\ UNCHANGED <<columns, categories>>

\* Database.serialize(): a deepcopy of the columns
Serialize ==
  /\ Returns(Call("serialize", NoTask, None, None, 0, "ok"))
  /\ UNCHANGED <<tasks_db, columns, categories, has_changes>>

\* ---------------------------------------------------------------- category operations
\* Database.add_category(category)
AddCategory(category) ==
  /\ categories' = Put(categories, category.id, category)
  /\ MarkChanged
  /\ Returns(Call("add_category", NoTask, category.id, None, 0, "ok"))
  /\ UNCHANGED <<tasks_db, columns>>

\* Database.get_category(category_id)
GetCategory(category_id) ==
  IF category_id \notin DOMAIN categories
  THEN RaiseKeyError("get_category", NoTask, category_id)
  ELSE /\ Returns(Call("get_category", NoTask, category_id, None, 0, "ok"))
       /\ UNCHANGED <<tasks_db, columns, categories, has_changes>>

\* for key, value in kwargs.items(): if value is not None: setattr(...)
SetNonNull(rec, kwargs) ==
  [f \in DOMAIN rec |->
     IF f \in DOMAIN kwargs /\ kwargs[f] # None THEN kwargs[f] ELSE rec[f]]

\* Database.update_category(category_id, **kwargs)
UpdateCategory(category_id, kwargs) ==
  IF category_id \notin DOMAIN categories
  THEN RaiseKeyError("update_category", NoTask, category_id)
  ELSE /\ categories' = [categories EXCEPT ![category_id] = SetNonNull(@, kwargs)]
       /\ MarkChanged
       /\ Returns(Updated("update_category", NoTask, category_id, kwargs))
       /\ UNCHANGED <<tasks_db, columns>>

\* faulty variant: the category test is missing, every task loses its category
NullifiedAll(db, category_id) ==
  [id \in DOMAIN db |-> [db[id] EXCEPT !.category_id = None]]

\* for task in tasks_db.values(): if task.category_id == category_id: task.category_id = None
Nullified(db, category_id) ==
  [id \in DOMAIN db |->
     IF db[id].category_id = category_id
     THEN [db[id] EXCEPT !.category_id = None]
     ELSE db[id]]

\* Database.delete_category(category_id)
DeleteCategory(category_id) ==
  IF category_id \notin DOMAIN categories
  THEN RaiseKeyError("delete_category", NoTask, category_id)
  ELSE /\ tasks_db' = Nullified(tasks_db, category_id)
       /\ categories' = Del(categories, category_id)
       /\ MarkChanged
       /\ Returns(Call("delete_category", NoTask, category_id, None, 0, "ok"))
       /\ UNCHANGED columns

\* Database.get_all_categories(): a deepcopy of the category map
GetAllCategories ==
  /\ last' = Call("get_all_categories", NoTask, None, None, 0, "ok")
  /\ ret' = Data(categories)
  /\ UNCHANGED <<tasks_db, columns, categories, has_changes, file, unsaved>>

\* ---------------------------------------------------------------- snapshots
\* dict.get(key, default)
GetOr(d, key, default) == IF key \in DOMAIN d THEN d[key] ELSE default

\* the dict both export_to_json and save_to_file build: model_dump() of every
\* task and category, and each column as the list of its tasks' ids
Dump(db, cols, cats) ==
  [tasks |-> [id \in DOMAIN db |-> db[id]],
   columns |-> [c \in DOMAIN cols |-> cols[c]],
   categories |-> [id \in DOMAIN cats |-> cats[id]]]

\* Database.export_to_json()
ExportToJson ==
  /\ last' = Call("export_to_json", NoTask, None, None, 0, "ok")
  /\ ret' = Data(Dump(tasks_db, columns, categories))
  /\ UNCHANGED <<tasks_db, columns, categories, has_changes, file, unsaved>>

\* faulty variant: a task record without category_id does not validate
ValidTaskWithCategory(d) ==
  /\ {"id", "title", "category_id"} \subseteq DOMAIN d
  /\ d["title"] # None

\* Task(**task_data) validates: id and title are required strings
ValidTask(d) ==
  /\ {"id", "title"} \subseteq DOMAIN d
  /\ d["title"] # None

\* faulty variant: category_id is reset for every record, not only where missing
TaskOfResettingCategory(d) ==
  Task(d["id"], d["title"], GetOr(d, "description", None), None)

\* if "category_id" not in task_data: task_data["category_id"] = None
\* task = Task(**task_data), description defaulting to None
TaskOf(d) ==
  Task(d["id"], d["title"], GetOr(d, "description", None),
       GetOr(d, "category_id", None))

\* Category(**cat_data) validates: id, name and color are required strings
ValidCategory(d) ==
  /\ {"id", "name", "color"} \subseteq DOMAIN d
  /\ d["name"] # None /\ d["color"] # None

CategoryOf(d) == Category(d["id"], d["name"], d["color"])

\* for task_id in task_ids: if task_id in tasks_db: column.append(tasks_db[task_id])
Known(s, db) == SelectSeq(s, LAMBDA id : id \in DOMAIN db)

\* what import leaves behind, for every order the document's entries can come
\* in: the three maps, and the exception that ended it (None: it ran through).
\* An invalid task or category record raises after the records before it have
\* been stored; a document that is no object raises at the first data.get
ImportOutcomes(json) ==
  IF json.kind # "object"
  THEN {[db |-> EmptyDict, cols |-> EmptyDict, cats |-> EmptyDict,
         exc |-> "AttributeError"]}
  ELSE
    LET td == GetOr(json.data, "tasks", EmptyDict)
        cd == GetOr(json.data, "columns", EmptyDict)
        gd == GetOr(json.data, "categories", EmptyDict)
        okT == {k \in DOMAIN td : ValidTask(td[k])}
        okG == {k \in DOMAIN gd : ValidCategory(gd[k])}
        db == [k \in okT |-> TaskOf(td[k])]
        cols == [c \in DOMAIN cd |-> Known(cd[c], db)]
    IN  IF okT # DOMAIN td
        THEN {[db |-> [k \in S |-> TaskOf(td[k])], cols |-> EmptyDict,
               cats |-> EmptyDict, exc |-> "ValidationError"] : S \in SUBSET okT}
        ELSE IF okG # DOMAIN gd
        THEN {[db |-> db, cols |-> cols, cats |-> [k \in S |-> CategoryOf(gd[k])],
               exc |-> "ValidationError"] : S \in SUBSET okG}
        ELSE {[db |-> db, cols |-> cols, cats |-> [k \in okG |-> CategoryOf(gd[k])],
               exc |-> None]}

\* faulty variant: the three clear() calls are left out, so that what the maps
\* held before stays beside what the document brings
ImportWithoutClear(arg, json) ==
  \E o \in ImportOutcomes(json) :
    /\ tasks_db' = o.db @@ tasks_db
    /\ columns' = o.cols @@ columns
    /\ categories' = o.cats @@ categories
    /\ Returns(Call("import_from_json", NoTask, None, arg, 0,
                    IF o.exc = None THEN "ok" ELSE o.exc))
    /\ UNCHANGED has_changes

\* Database.import_from_json(data); arg names where the caller took data from
ImportFromJson(arg, json) ==
  \E o \in ImportOutcomes(json) :
    /\ tasks_db' = o.db
    /\ columns' = o.cols
    /\ categories' = o.cats
    /\ Returns(Call("import_from_json", NoTask, None, arg, 0,
                    IF o.exc = None THEN "ok" ELSE o.exc))
    /\ UNCHANGED has_changes

\* datetime.now().isoformat(): the model's clock shows one time
Now == "2026-01-01T00:00:00"

\* data["backup_timestamp"] = ...
Stamped(d) == [k \in DOMAIN d \cup {"backup_timestamp"} |->
                 IF k = "backup_timestamp" THEN Now ELSE d[k]]

\* what the disk can do to open(path, "w") followed by json.dump
WriteOutcomes == {"written", "open fails", "dump fails"}

\* the file after the write: open(path, "w") truncates, and a dump that fails
\* leaves the part written so far
Written(old, d, io) ==
  CASE io = "written" -> JsonObject(d)
    [] io = "open fails" -> old
    [] io = "dump fails" -> Garbage

\* faulty variant: the flag is cleared before the write is attempted
SaveClearingFirst ==
  IF ~has_changes
  THEN /\ last' = Caught("save_to_file", "False", None)
       /\ ret' = NoData
       /\ UNCHANGED <<tasks_db, columns, categories, has_changes, file, unsaved>>
  ELSE \E io \in WriteOutcomes :
         /\ file' = Written(file, Stamped(Dump(tasks_db, columns, categories)), io)
         /\ has_changes' = FALSE
         /\ unsaved' = (unsaved /\ io # "written")
         /\ last' = IF io = "written"
                    THEN Caught("save_to_file", "True", None)
                    ELSE Caught("save_to_file", "False", "OSError")
         /\ ret' = NoData
         /\ UNCHANGED <<tasks_db, columns, categories>>

\* faulty variant: the copy of the export code inside save_to_file has not
\* followed export_to_json and writes no categories
SaveWithoutCategories ==
  IF ~has_changes
  THEN /\ last' = Caught("save_to_file", "False", None)
       /\ ret' = NoData
       /\ UNCHANGED <<tasks_db, columns, categories, has_changes, file, unsaved>>
  ELSE \E io \in WriteOutcomes :
         /\ file' = Written(file, Stamped(Dump(tasks_db, columns, EmptyDict)), io)
         /\ has_changes' = (io # "written")
         /\ unsaved' = (unsaved /\ io # "written")
         /\ last' = IF io = "written"
                    THEN Caught("save_to_file", "True", None)
                    ELSE Caught("save_to_file", "False", "OSError")
         /\ ret' = NoData
         /\ UNCHANGED <<tasks_db, columns, categories>>

\* Database.save_to_file()
SaveToFile ==
  IF ~has_changes
  THEN /\ last' = Caught("save_to_file", "False", None)
       /\ ret' = NoData
       /\ UNCHANGED <<tasks_db, columns, categories, has_changes, file, unsaved>>
  ELSE \E io \in WriteOutcomes :
         /\ file' = Written(file, Stamped(Dump(tasks_db, columns, categories)), io)
         /\ has_changes' = (io # "written")
         /\ unsaved' = (unsaved /\ io # "written")
         /\ last' = IF io = "written"
                    THEN Caught("save_to_file", "True", None)
                    ELSE Caught("save_to_file", "False", "OSError")
         /\ ret' = NoData
         /\ UNCHANGED <<tasks_db, columns, categories>>

\* what the disk can do to open(path, "r") and the read
ReadOutcomes == {"read", "read fails"}

\* faulty variant: the three clear() calls come before the file is opened
LoadClearingFirst ==
  /\ ret' = NoData
  /\ UNCHANGED file
  /\ IF file.kind = "absent"
     THEN /\ last' = Caught("load_from_file", "False", None)
          /\ UNCHANGED <<tasks_db, columns, categories, has_changes, unsaved>>
     ELSE \E io \in ReadOutcomes :
       IF io = "read fails" \/ file.kind = "garbage"
       THEN /\ last' = Caught("load_from_file", "False",
                              IF io = "read fails" THEN "OSError"
                              ELSE "JSONDecodeError")
            /\ tasks_db' = EmptyDict
            /\ columns' = EmptyDict
            /\ categories' = EmptyDict
            /\ UNCHANGED <<has_changes, unsaved>>
       ELSE \E o \in ImportOutcomes(file) :
              /\ tasks_db' = o.db
              /\ columns' = o.cols
              /\ categories' = o.cats
              /\ IF o.exc = None
                 THEN /\ has_changes' = FALSE
                      /\ unsaved' = FALSE
                      /\ last' = Caught("load_from_file", "True", None)
                 ELSE /\ last' = Caught("load_from_file", "False", o.exc)
                      /\ UNCHANGED <<has_changes, unsaved>>

\* Database.load_from_file()
LoadFromFile ==
  /\ ret' = NoData
  /\ UNCHANGED file
  /\ IF file.kind = "absent"
     THEN /\ last' = Caught("load_from_file", "False", None)
          /\ UNCHANGED <<tasks_db, columns, categories, has_changes, unsaved>>
     ELSE \E io \in ReadOutcomes :
       IF io = "read fails" \/ file.kind = "garbage"
       THEN /\ last' = Caught("load_from_file", "False",
                              IF io = "read fails" THEN "OSError"
                              ELSE "JSONDecodeError")
            /\ UNCHANGED <<tasks_db, columns, categories, has_changes, unsaved>>
       ELSE \E o \in ImportOutcomes(file) :
              /\ tasks_db' = o.db
              /\ columns' = o.cols
              /\ categories' = o.cats
              /\ IF o.exc = None
                 THEN /\ has_changes' = FALSE
                      /\ unsaved' = FALSE
                      /\ last' = Caught("load_from_file", "True", None)
                 ELSE /\ last' = Caught("load_from_file", "False", o.exc)
                      /\ UNCHANGED <<has_changes, unsaved>>

\* ---------------------------------------------------------------- construction
\* the ten tasks __init__ adds when nothing was loaded: title and column, in
\* the order of the add calls
DefaultTasks ==
  <<[title |-> "Ask Claude AI to make Half-Life 3 as an easter egg in the app",
     column |-> "ideas"],
    [title |-> "Make the app web-scale", column |-> "ideas"],
    [title |-> "Implement User accounts and Auth/Autz", column |-> "ideas"],
    [title |-> "Re-design the API endpoints", column |-> "selected"],
    [title |-> "Holistically administrate exceptional synergies",
     column |-> "selected"],
    [title |-> "Update the README with a screenshot", column |-> "in_progress"],
    [title |-> "Take over the world", column |-> "parked"],
    [title |-> "Review the code", column |-> "parked"],
    [title |-> "Add data persistence", column |-> "done"],
    [title |-> "Write Infrastructure scaffolding for deployment",
     column |-> "done"]>>

\* id=str(uuid.uuid4()) of the i-th default task: an id no caller and no file has
DefaultId(i) == MaxTasks + i

\* the task map and the columns after the add calls i, i + 1, ... of __init__
RECURSIVE AddDefaults(_, _, _)
AddDefaults(db, cols, i) ==
  IF i > Len(DefaultTasks) THEN [db |-> db, cols |-> cols]
  ELSE AddDefaults(Put(db, DefaultId(i),
                       Task(DefaultId(i), DefaultTasks[i].title, "", None)),
                   Appended(cols, DefaultTasks[i].column, DefaultId(i)),
                   i + 1)

\* what load_from_file does to a store db, cols, cats with file f at the backup
\* path: the three maps, the bool it returns, the exception it caught
LoadOutcomes(db, cols, cats, f) ==
  LET kept(exc) == [db |-> db, cols |-> cols, cats |-> cats, res |-> "False",
                    exc |-> exc]
  IN  IF f.kind = "absent" THEN {kept(None)}
      ELSE {kept("OSError")} \cup
           (IF f.kind = "garbage" THEN {kept("JSONDecodeError")}
            ELSE {[db |-> o.db, cols |-> o.cols, cats |-> o.cats,
                   res |-> IF o.exc = None THEN "True" ELSE "False",
                   exc |-> o.exc] : o \in ImportOutcomes(f)})

\* what Database(backup_file) builds with file f at the backup path: the
\* fields, load_from_file, and when that returns False the ten add calls and
\* _has_changes = True
StartOutcomes(f) ==
  {LET seeded == AddDefaults(o.db, o.cols, 1)
   IN  [db |-> IF o.res = "True" THEN o.db ELSE seeded.db,
        cols |-> IF o.res = "True" THEN o.cols ELSE seeded.cols,
        cats |-> o.cats,
        changed |-> (o.res # "True"),
        res |-> o.res,
        exc |-> o.exc] :
     o \in LoadOutcomes(EmptyDict, EmptyDict, EmptyDict, f)}

\* Database(backup_file), called on a running model: the process starts again
Construct ==
  \E s \in StartOutcomes(file) :
    /\ tasks_db' = s.db
    /\ columns' = s.cols
    /\ categories' = s.cats
    /\ has_changes' = s.changed
    /\ unsaved' = s.changed
    /\ last' = Caught("__init__", s.res, s.exc)
    /\ ret' = NoData
    /\ UNCHANGED file

\* db = Database(backup_file) has just returned, file f being at the backup
\* path, and no thread has called the store yet
Started(f) ==
  \E s \in StartOutcomes(f) :
    /\ tasks_db = s.db
    /\ columns = s.cols
    /\ categories = s.cats
    /\ has_changes = s.changed
    /\ unsaved = s.changed
    /\ last = Caught("__init__", s.res, s.exc)
    /\ ret = NoData
    /\ held = NoHeld
    /\ file = f
    /\ lock = NoThread
    /\ pc = [t \in Threads |-> Idle]

\* ---------------------------------------------------------------- inputs
\* the Task objects a caller builds (TaskCreate: any title, description, category)
NewTasks(titles, descriptions, cats) ==
  {Task(id, ti, de, ca) :
     id \in TaskIds, ti \in titles, de \in descriptions, ca \in cats}

\* keyword arguments: any subset of the fields, each with a value of its type
Kwargs(fields) ==
  {kw \in UNION {[F -> UNION {fields[f] : f \in F}] : F \in SUBSET DOMAIN fields} :
     \A f \in DOMAIN kw : kw[f] \in fields[f]}

NewCategories(names, colors) ==
  {Category(id, na, co) : id \in CatIds, na \in names, co \in colors}

\* ---------------------------------------------------------------- specification
\* what the callers of Spec pass: tasks of any category, keyword arguments that
\* set the category, categories of one name
TasksGiven == NewTasks({"A"}, {None}, {None} \cup CatIds)
TaskKwargsGiven == Kwargs([category_id |-> {None} \cup CatIds])
CategoriesGiven == NewCategories({"Bug"}, Colors)
CategoryKwargsGiven == Kwargs([name |-> {"Bug", None}])

\* the store's calls in any order, from the empty store
Next ==
  \/ \E t \in TasksGiven, c \in ColIds : Add(t, c) /\ Alone
  \/ \E id \in TaskIds : Get(id) /\ Alone
  \/ \E id \in TaskIds, c \in ColIds, i \in Indexes : Move(id, c, i) /\ Alone
  \/ \E id \in TaskIds : Delete(id) /\ Alone
  \/ \E c \in ColIds : EmptyColumn(c) /\ Alone
  \/ \E id \in TaskIds, kw \in TaskKwargsGiven : UpdateTask(id, kw) /\ Alone
  \/ \E c \in CategoriesGiven : AddCategory(c) /\ Alone
  \/ \E id \in CatIds : GetCategory(id) /\ Alone
  \/ GetAllCategories /\ Alone
  \/ \E id \in CatIds, kw \in CategoryKwargsGiven : UpdateCategory(id, kw) /\ Alone
  \/ \E id \in CatIds : DeleteCategory(id) /\ Alone

Spec == Init /\ [][Next]_vars

\* ---------------------------------------------------------------- snapshots given
\* a snapshot of the older format: no category_id in the task, no categories
OldFormat ==
  [tasks |-> (1 :> [id |-> 1, title |-> "B", description |-> "d"]),
   columns |-> [todo |-> <<1>>, done |-> <<>>]]

\* a snapshot whose second task record has no title
Broken ==
  [tasks |-> (1 :> [id |-> 1, title |-> "A", description |-> None,
                    category_id |-> None]) @@ (2 :> [id |-> 2]),
   columns |-> [todo |-> <<1, 2>>],
   categories |-> EmptyDict]

\* the snapshots a caller has at hand for import_from_json
SnapshotInputs == [old |-> JsonObject(OldFormat), broken |-> JsonObject(Broken)]

\* what can be at the backup path when the store is built
InitFiles == {NoFile, Garbage, JsonList, JsonObject(OldFormat), JsonObject(Broken)}

\* import_from_json(data), data being the dict export_to_json has just
\* returned or one of the snapshots at hand
Import(arg) ==
  IF arg = "ret"
  THEN last.op = "export_to_json" /\ ImportFromJson(arg, JsonObject(ret.data))
  ELSE ImportFromJson(arg, SnapshotInputs[arg])

PersistTasksGiven == NewTasks({"A"}, {None}, {None})
SnapshotTasksGiven == NewTasks({"A"}, {None}, {None, "c1"})

\* export and import among the calls that fill, reorder and empty columns
NextSnapshot ==
  \/ \E t \in SnapshotTasksGiven, c \in ColIds : Add(t, c) /\ Alone
  \/ \E id \in TaskIds, c \in ColIds, i \in 0..MaxIndex : Move(id, c, i) /\ Alone
  \/ \E c \in ColIds : EmptyColumn(c) /\ Alone
  \/ AddCategory(Category("c1", "Bug", "red")) /\ Alone
  \/ Serialize /\ Alone
  \/ ExportToJson /\ Alone
  \/ \E arg \in {"ret"} \cup DOMAIN SnapshotInputs : Import(arg) /\ Alone

SpecSnapshot == Init /\ [][NextSnapshot]_vars

\* the store with its backup file: one column, one category, saves and loads
\* that the disk lets succeed or fail
NextPersist ==
  \/ \E t \in PersistTasksGiven : Add(t, "todo") /\ Alone
  \/ \E id \in TaskIds, i \in 0..MaxIndex : Move(id, "todo", i) /\ Alone
  \/ \E id \in TaskIds : Delete(id) /\ Alone
  \/ EmptyColumn("todo") /\ Alone
  \/ AddCategory(Category("c1", "Bug", "red")) /\ Alone
  \/ DeleteCategory("c1") /\ Alone
  \/ SaveToFile /\ Alone
  \/ LoadFromFile /\ Alone

SpecPersist == (\E f \in InitFiles : Fresh(f)) /\ [][NextPersist]_vars

\* a snapshot whose category record has no name
BadCategory ==
  [tasks |-> (1 :> [id |-> 1, title |-> "A", description |-> None,
                    category_id |-> "c1"]),
   columns |-> [ideas |-> <<1>>],
   categories |-> [c1 |-> [id |-> "c1"]]]

\* what can be at the backup path when the process starts
StartupFiles == InitFiles \cup {JsonObject(BadCategory)}

\* the process is started, works on its store, saves, and is started again
NextStartup ==
  \/ Construct /\ Alone
  \/ \E t \in PersistTasksGiven : Add(t, "todo") /\ Alone
  \/ \E id \in TaskIds : Delete(id) /\ Alone
  \/ EmptyColumn("done") /\ Alone
  \/ SaveToFile /\ Alone

SpecStartup == (\E f \in StartupFiles : Fresh(f)) /\ [][NextStartup]_vars

\* snapshots no export produces: a task listed in no column, listed twice in a
\* column, listed in two columns, and a column listing an id without a record
Listed(cols) ==
  [tasks |-> (1 :> [id |-> 1, title |-> "A", description |-> None,
                    category_id |-> None]),
   columns |-> cols,
   categories |-> EmptyDict]

OddSnapshots ==
  [nowhere |-> JsonObject(Listed([todo |-> <<>>])),
   twice |-> JsonObject(Listed([todo |-> <<1, 1>>])),
   two_columns |-> JsonObject(Listed([todo |-> <<1>>, done |-> <<1>>])),
   no_record |-> JsonObject(Listed([todo |-> <<2, 1>>]))]

\* import_from_json of such a snapshot, among the calls that add, move and
\* read tasks
NextImport ==
  \/ \E arg \in DOMAIN OddSnapshots :
       ImportFromJson(arg, OddSnapshots[arg]) /\ Alone
  \/ \E t \in PersistTasksGiven, c \in ColIds : Add(t, c) /\ Alone
  \/ \E id \in TaskIds, c \in ColIds, i \in 0..MaxIndex : Move(id, c, i) /\ Alone
  \/ \E id \in TaskIds : Get(id) /\ Alone

SpecImport == Init /\ [][NextImport]_vars

\* snapshots written before categories existed: task records without
\* category_id beside one that has it, a document without the categories key,
\* and both at once
OlderSnapshots ==
  [no_category_id |->
     JsonObject([tasks |-> (1 :> [id |-> 1, title |-> "B", description |-> "d"])
                           @@ (2 :> [id |-> 2, title |-> "A", description |-> None,
                                     category_id |-> "c1"]),
                 columns |-> [todo |-> <<2, 1>>, done |-> <<>>],
                 categories |-> [c1 |-> Category("c1", "Bug", "red")]]),
   no_categories |->
     JsonObject([tasks |-> (1 :> [id |-> 1, title |-> "A", description |-> None,
                                  category_id |-> None]),
                 columns |-> [done |-> <<1>>]]),
   old |-> JsonObject(OldFormat)]

\* what can be at the backup path: nothing, or one of the older snapshots
OlderFiles == {NoFile} \cup {OlderSnapshots[a] : a \in DOMAIN OlderSnapshots}

\* a store that has tasks and a category takes in an older snapshot, by
\* import_from_json or from its backup file, and writes the file anew
NextOlder ==
  \/ \E arg \in DOMAIN OlderSnapshots :
       ImportFromJson(arg, OlderSnapshots[arg]) /\ Alone
  \/ LoadFromFile /\ Alone
  \/ SaveToFile /\ Alone
  \/ \E t \in PersistTasksGiven : Add(t, "todo") /\ Alone
  \/ EmptyColumn("todo") /\ Alone
  \/ AddCategory(Category("c2", "Chore", "blue")) /\ Alone

SpecOlder == (\E f \in OlderFiles : Fresh(f)) /\ [][NextOlder]_vars

\* complete snapshots that differ from what the store holds: one whose columns
\* list ids without a task record (one column nothing else), with a category of
\* its own, and one that holds nothing at all
OtherSnapshots ==
  [unknown_ids |->
     JsonObject([tasks |-> (2 :> Task(2, "B", "d", "c2")),
                 columns |-> [done |-> <<MaxTasks + 1, 2, 1>>,
                              ideas |-> <<1, MaxTasks + 1>>],
                 categories |-> [c2 |-> Category("c2", "Chore", "red")]]),
   nothing |->
     JsonObject([tasks |-> EmptyDict, columns |-> EmptyDict,
                 categories |-> EmptyDict])]

\* import_from_json of such a snapshot into a store that tasks were added
\* to, moved in and deleted from, and that has a category
NextReplace ==
  \/ \E arg \in DOMAIN OtherSnapshots :
       ImportFromJson(arg, OtherSnapshots[arg]) /\ Alone
  \/ \E t \in PersistTasksGiven, c \in ColIds : Add(t, c) /\ Alone
  \/ \E id \in TaskIds, c \in ColIds : Move(id, c, 0) /\ Alone
  \/ \E id \in TaskIds : Delete(id) /\ Alone
  \/ AddCategory(Category("c1", "Bug", "red")) /\ Alone

SpecReplace == Init /\ [][NextReplace]_vars

\* import_from_json(json.load(f)) by a caller that has parsed the backup file
\* itself
ImportFile ==
  /\ file.kind \notin {"absent", "garbage"}
  /\ ImportFromJson("file", file)

\* what can be at the backup path at first: nothing, or a snapshot of the
\* older or of the present format
AgreeFiles == {NoFile, JsonObject(OldFormat), OlderSnapshots["no_category_id"]}

\* the public export and import beside the save and load that repeat their
\* code, on a store that tasks and a category are added to and deleted from
NextAgree ==
  \/ \E t \in SnapshotTasksGiven : Add(t, "todo") /\ Alone
  \/ \E id \in TaskIds : Delete(id) /\ Alone
  \/ AddCategory(Category("c1", "Bug", "red")) /\ Alone
  \/ ExportToJson /\ Alone
  \/ SaveToFile /\ Alone
  \/ LoadFromFile /\ Alone
  \/ ImportFile /\ Alone

SpecAgree == (\E f \in AgreeFiles : Fresh(f)) /\ [][NextAgree]_vars

\* ---------------------------------------------------------------- results kept
\* self._columns as Python holds it: each column the list of its Task objects
Listing(db, cols) ==
  [c \in DOMAIN cols |-> [i \in 1..Len(cols[c]) |-> db[cols[c][i]]]]

\* faulty variant: the store's own dict is handed out
Shared(of, v) == [of |-> of, shared |-> TRUE, touched |-> FALSE, data |-> v]

\* deepcopy(v), returned by call of: a structure that shares no dict, list or
\* record with the store
Deepcopy(of, v) == [of |-> of, shared |-> FALSE, touched |-> FALSE, data |-> v]

\* what the caller finds in the structure it keeps
Seen ==
  IF ~held.shared THEN held.data
  ELSE IF held.of = "serialize" THEN Listing(tasks_db, columns)
  ELSE categories

\* result = db.serialize(), as get_tasks and test_serialize call it
SerializeKept ==
  /\ Serialize
  /\ held' = Deepcopy("serialize", Listing(tasks_db, columns))
  /\ UNCHANGED <<lock, pc>>

\* result = db.get_all_categories(), as get_categories calls it
CategoriesKept ==
  /\ GetAllCategories
  /\ held' = Deepcopy("get_all_categories", categories)
  /\ UNCHANGED <<lock, pc>>

\* the ways a caller can change a structure r it got from call of: clear a
\* list, pop a key, assign an attribute of a record
Ways(r, of) ==
  IF of = "serialize"
  THEN {<<how, c>> : how \in {"clear", "pop"}, c \in DOMAIN r}
       \cup {<<"retitle", c>> : c \in {x \in DOMAIN r : Len(r[x]) > 0}}
  ELSE {<<how, g>> : how \in {"pop", "rename"}, g \in DOMAIN r}

\* structure r after the caller changed it in way w
Touch(r, w) ==
  CASE w[1] = "clear" -> [r EXCEPT ![w[2]] = <<>>]
    [] w[1] = "pop" -> Del(r, w[2])
    [] w[1] = "retitle" -> [r EXCEPT ![w[2]][1].title = "X"]
    [] w[1] = "rename" -> [r EXCEPT ![w[2]].name = "X"]

\* the caller changes the structure it keeps, once; a structure shared with
\* the store is the store's
CallerChanges ==
  /\ held.of # None
  /\ ~held.touched
  /\ \E w \in Ways(Seen, held.of) :
       IF ~held.shared
       THEN /\ held' = [held EXCEPT !.data = Touch(held.data, w), !.touched = TRUE]
            /\ UNCHANGED <<tasks_db, columns, categories>>
       ELSE /\ held' = [held EXCEPT !.touched = TRUE]
            /\ IF held.of = "serialize"
               THEN /\ columns' = IF w[1] = "retitle" THEN columns
                                  ELSE Touch(columns, w)
                    /\ tasks_db' = IF w[1] = "retitle"
                                   THEN [tasks_db EXCEPT ![columns[w[2]][1]].title = "X"]
                                   ELSE tasks_db
                    /\ UNCHANGED categories
               ELSE /\ categories' = Touch(categories, w)
                    /\ UNCHANGED <<tasks_db, columns>>
  /\ UNCHANGED <<has_changes, file, lock, pc, last, ret, unsaved>>

\* callers that keep what serialize and get_all_categories returned, change
\* it, and go on calling the store
NextReaders ==
  \/ \E t \in PersistTasksGiven :
       Add(t, IF t.id = 1 THEN "done" ELSE "todo") /\ Alone
  \/ \E id \in TaskIds : Delete(id) /\ Alone
  \/ UpdateTask(1, [title |-> "B"]) /\ Alone
  \/ AddCategory(Category("c1", "Bug", "red")) /\ Alone
  \/ DeleteCategory("c1") /\ Alone
  \/ Get(1) /\ Alone
  \/ GetCategory("c1") /\ Alone
  \/ ExportToJson /\ Alone
  \/ SerializeKept
  \/ CategoriesKept
  \/ CallerChanges

SpecReaders == Init /\ [][NextReaders]_vars

\* ---------------------------------------------------------------- order
\* one task more than the other specifications have, so that a column can
\* hold a task between two others
OrderIds == 1..(MaxTasks + 1)
OrderTasksGiven == {Task(id, "A", None, None) : id \in OrderIds}

\* the calls that fill, reorder and thin out the columns
NextOrder ==
  \/ \E t \in OrderTasksGiven, c \in ColIds : Add(t, c) /\ Alone
  \/ \E id \in OrderIds, i \in 0..MaxIndex : Move(id, "todo", i) /\ Alone
  \/ \E id \in OrderIds : Delete(id) /\ Alone
  \/ \E id \in OrderIds : Get(id) /\ Alone

SpecOrder == Init /\ [][NextOrder]_vars

\* TaskMove.new_index is an int: any integer, those that do not fit a
\* Py_ssize_t included
MoveIndexes == (0 - MaxSsize - 2)..(MaxSsize + 2)

\* tasks added and moved to any index
NextMove ==
  \/ \E t \in PersistTasksGiven, c \in ColIds : Add(t, c) /\ Alone
  \/ \E id \in TaskIds, c \in ColIds, i \in MoveIndexes : Move(id, c, i) /\ Alone
  \/ \E id \in TaskIds : Get(id) /\ Alone

SpecMove == Init /\ [][NextMove]_vars

\* ---------------------------------------------------------------- updates
\* keyword arguments that name one field, several or none, None among the
\* values
UpdateTaskKwargs == Kwargs([title |-> {"B"}, description |-> {None}])
UpdateCategoryKwargs == Kwargs([name |-> {"Chore", None}, color |-> {None}])

\* tasks with a description and a category, and the updates of both
NextUpdate ==
  \/ \E t \in NewTasks({"A"}, {"d"}, {"c1"}) : Add(t, "todo") /\ Alone
  \/ AddCategory(Category("c1", "Bug", "red")) /\ Alone
  \/ \E id \in TaskIds, kw \in UpdateTaskKwargs : UpdateTask(id, kw) /\ Alone
  \/ \E kw \in UpdateCategoryKwargs : UpdateCategory("c1", kw) /\ Alone

SpecUpdate == Init /\ [][NextUpdate]_vars

\* ---------------------------------------------------------------- threads
\* The calls statement by statement, as the request threads and the backup
\* thread run them. Each call's first step takes the lock ("with self._lock:")
\* and its last step gives it back; a call of one statement does both in one step.

\* faulty variant: the with-block is entered whoever holds the lock
CanAcquireAnyway(t) == TRUE

\* RLock.acquire() goes through when the lock is free or held by the caller
CanAcquire(t) == lock \in {NoThread, t}

\* thread t, outside any call, enters "with self._lock:"
Free(t) == pc[t].at = "idle" /\ CanAcquire(t)

\* t stays inside the with-block, at frame f
Enter(t, f) ==
  /\ lock' = t
  /\ pc' = [pc EXCEPT ![t] = f]
  /\ UNCHANGED held

\* t goes on to statement at, inside the with-block
Goto(t, at) ==
  /\ pc' = [pc EXCEPT ![t].at = at]
  /\ UNCHANGED <<lock, held>>

\* faulty variant: the call is left with the lock still held
LeaveLocked(t) ==
  /\ pc' = [pc EXCEPT ![t] = Idle]
  /\ UNCHANGED <<lock, held>>

\* t leaves the with-block
Leave(t) ==
  /\ lock' = NoThread
  /\ pc' = [pc EXCEPT ![t] = Idle]
  /\ UNCHANGED held

At(t, op, at) == pc[t].op = op /\ pc[t].at = at

\* a call that is over within one step
Whole(t) == Free(t) /\ UNCHANGED <<lock, pc, held>>

\* add: self._tasks_db[t.id] = t
AddPut(t, task, column_id) ==
  /\ Free(t)
  /\ task.id \notin DOMAIN tasks_db
  /\ tasks_db' = Put(tasks_db, task.id, task)
  /\ Enter(t, Frame("add", "append", task.id, column_id, 0))
  /\ UNCHANGED <<columns, categories, has_changes, file, last, ret, unsaved>>

\* add: the column's append, _mark_changed()
AddAppend(t) ==
  /\ At(t, "add", "append")
  /\ columns' = Appended(columns, pc[t].col, pc[t].tid)
  /\ MarkChanged
  /\ Returns(Call("add", pc[t].tid, None, pc[t].col, 0, "ok"))
  /\ Leave(t)
  /\ UNCHANGED <<tasks_db, categories>>

\* move: task = self._tasks_db[id]
MoveLookup(t, id, to_column_id, to_index) ==
  /\ Free(t)
  /\ IF id \notin DOMAIN tasks_db
     THEN RaiseKeyError("move", id, None) /\ UNCHANGED <<lock, pc, held>>
     ELSE /\ Enter(t, Frame("move", "remove", id, to_column_id, to_index))
          /\ UNCHANGED <<tasks_db, columns, categories, has_changes, file, last,
                         ret, unsaved>>

\* move: the loop that takes the task out of its column
MoveRemove(t) ==
  /\ At(t, "move", "remove")
  /\ \E src \in Holders(columns, pc[t].tid) :
       columns' = Removed(columns, src, pc[t].tid)
  /\ Goto(t, "insert")
  /\ UNCHANGED <<tasks_db, categories, has_changes, file, last, ret, unsaved>>

\* move: the insert into the target column, _mark_changed()
MoveInsert(t) ==
  /\ At(t, "move", "insert")
  /\ IF Fits(pc[t].idx)
     THEN /\ columns' = Inserted(columns, pc[t].col, pc[t].idx, pc[t].tid)
          /\ MarkChanged
          /\ Returns(Call("move", pc[t].tid, None, pc[t].col, pc[t].idx, "ok"))
     ELSE /\ columns' = Ensured(columns, pc[t].col)
          /\ Returns(Call("move", pc[t].tid, None, pc[t].col, pc[t].idx,
                          "OverflowError"))
          /\ UNCHANGED has_changes
  /\ Leave(t)
  /\ UNCHANGED <<tasks_db, categories>>

\* delete: task = self._tasks_db[task_id]; del self._tasks_db[task_id]
DeleteLookup(t, task_id) ==
  /\ Free(t)
  /\ IF task_id \notin DOMAIN tasks_db
     THEN RaiseKeyError("delete", task_id, None) /\ UNCHANGED <<lock, pc, held>>
     ELSE /\ tasks_db' = Del(tasks_db, task_id)
          /\ Enter(t, Frame("delete", "remove", task_id, None, 0))
          /\ UNCHANGED <<columns, categories, has_changes, file, last, ret,
                         unsaved>>

\* delete: the loop that takes the task out of its column, _mark_changed()
DeleteRemove(t) ==
  /\ At(t, "delete", "remove")
  /\ \E src \in Holders(columns, pc[t].tid) :
       columns' = Removed(columns, src, pc[t].tid)
  /\ MarkChanged
  /\ Returns(Call("delete", pc[t].tid, None, None, 0, "ok"))
  /\ Leave(t)
  /\ UNCHANGED <<tasks_db, categories>>

\* empty_column: if column_id in self._columns
EmptyCheck(t, column_id) ==
  /\ Free(t)
  /\ IF column_id \notin DOMAIN columns
     THEN /\ Returns(Call("empty_column", NoTask, None, column_id, 0, "ok"))
          /\ UNCHANGED <<tasks_db, columns, categories, has_changes, lock, pc,
                         held>>
     ELSE /\ Enter(t, Frame("empty_column", "loop", NoTask, column_id, 0))
          /\ UNCHANGED <<tasks_db, columns, categories, has_changes, file, last,
                         ret, unsaved>>

\* empty_column: one turn of the loop (del self._tasks_db[task.id]; idx counts
\* the turns taken), then columns[column_id] = [] and _mark_changed()
EmptyLoop(t) ==
  /\ At(t, "empty_column", "loop")
  /\ LET c == pc[t].col
         i == pc[t].idx
     IN  IF i < Len(columns[c])
         THEN IF columns[c][i + 1] \in DOMAIN tasks_db
              THEN /\ tasks_db' = Del(tasks_db, columns[c][i + 1])
                   /\ pc' = [pc EXCEPT ![t].idx = i + 1]
                   /\ UNCHANGED <<columns, categories, has_changes, file, lock,
                                  last, ret, unsaved, held>>
              ELSE /\ Returns(Call("empty_column", NoTask, None, c, 0, "KeyError"))
                   /\ Leave(t)
                   /\ UNCHANGED <<tasks_db, columns, categories, has_changes>>
         ELSE /\ columns' = [columns EXCEPT ![c] = <<>>]
              /\ MarkChanged
              /\ Returns(Call("empty_column", NoTask, None, c, 0, "ok"))
              /\ Leave(t)
              /\ UNCHANGED <<tasks_db, categories>>

\* save_to_file: if not self._has_changes: return False
SaveCheck(t) ==
  /\ Free(t)
  /\ IF ~has_changes
     THEN /\ last' = Caught("save_to_file", "False", None)
          /\ ret' = NoData
          /\ UNCHANGED <<tasks_db, columns, categories, has_changes, file,
                         unsaved, lock, pc, held>>
     ELSE /\ Enter(t, Frame("save_to_file", "write", NoTask, None, 0))
          /\ UNCHANGED <<tasks_db, columns, categories, has_changes, file, last,
                         ret, unsaved>>

\* faulty variant: the lock is given up between the dump and the clearing of
\* the flag
SaveWriteUnlocked(t) ==
  /\ At(t, "save_to_file", "write")
  /\ \E io \in WriteOutcomes :
       /\ file' = Written(file, Stamped(Dump(tasks_db, columns, categories)), io)
       /\ IF io = "written"
          THEN /\ pc' = [pc EXCEPT ![t].at = "clear"]
               /\ lock' = NoThread
               /\ UNCHANGED <<last, ret, held>>
          ELSE /\ last' = Caught("save_to_file", "False", "OSError")
               /\ ret' = NoData
               /\ Leave(t)
  /\ UNCHANGED <<tasks_db, columns, categories, has_changes, unsaved>>

\* save_to_file: build data, open the file and dump; an exception goes to
\* "except Exception" and False is returned
SaveWrite(t) ==
  /\ At(t, "save_to_file", "write")
  /\ \E io \in WriteOutcomes :
       /\ file' = Written(file, Stamped(Dump(tasks_db, columns, categories)), io)
       /\ IF io = "written"
          THEN /\ Goto(t, "clear")
               /\ UNCHANGED <<last, ret>>
          ELSE /\ last' = Caught("save_to_file", "False", "OSError")
               /\ ret' = NoData
               /\ Leave(t)
  /\ UNCHANGED <<tasks_db, columns, categories, has_changes, unsaved>>

\* save_to_file: self._has_changes = False; return True
SaveClear(t) ==
  /\ At(t, "save_to_file", "clear")
  /\ has_changes' = FALSE
  /\ unsaved' = FALSE
  /\ last' = Caught("save_to_file", "True", None)
  /\ ret' = NoData
  /\ Leave(t)
  /\ UNCHANGED <<tasks_db, columns, categories, file>>

\* the handlers' threads; the backup thread runs periodic_backup
RequestThreads == Threads \ {"backup"}

\* what a request thread can do next
Request(t) ==
  \/ \E task \in PersistTasksGiven : AddPut(t, task, "todo")
  \/ AddAppend(t)
  \/ \E id \in TaskIds, i \in {0, MaxIndex} : MoveLookup(t, id, "todo", i)
  \/ MoveRemove(t)
  \/ MoveInsert(t)
  \/ \E id \in TaskIds : DeleteLookup(t, id)
  \/ DeleteRemove(t)
  \/ EmptyCheck(t, "todo")
  \/ EmptyLoop(t)
  \/ Get(1) /\ Whole(t)
  \/ UpdateTask(1, [title |-> "A"]) /\ Whole(t)
  \/ Serialize /\ Whole(t)
  \/ ExportToJson /\ Whole(t)
  \/ AddCategory(Category("c1", "Bug", "red")) /\ Whole(t)
  \/ UpdateCategory("c1", [name |-> "Bug"]) /\ Whole(t)
  \/ DeleteCategory("c1") /\ Whole(t)
  \/ LoadFromFile /\ Whole(t)

\* periodic_backup: while True: db.save_to_file(); sleep(60)
Backup ==
  \/ SaveCheck("backup")
  \/ SaveWrite("backup")
  \/ SaveClear("backup")

NextThreads ==
  \/ \E t \in RequestThreads : Request(t)
  \/ Backup

SpecThreads == Init /\ [][NextThreads]_vars

\* ---------------------------------------------------------------- periodic backup
\* periodic_backup as the loop it is: while True: save_to_file(); sleep(60).
\* The backup thread is Idle at the top of the loop and Sleeping in sleep(60).
Sleeping == Frame("periodic_backup", "sleep", NoTask, None, 0)

\* the backup thread after an exception that nothing caught
Dead == Frame("periodic_backup", "dead", NoTask, None, 0)

\* save_to_file returns to periodic_backup, which goes on to sleep(60)
ToSleep ==
  /\ lock' = NoThread
  /\ pc' = [pc EXCEPT !["backup"] = Sleeping]
  /\ UNCHANGED held

\* faulty variant: the exception of a failed write is caught nowhere
TickRaised ==
  /\ lock' = NoThread
  /\ pc' = [pc EXCEPT !["backup"] = Dead]
  /\ UNCHANGED held

\* the write failed: "except Exception" in save_to_file returns False, and
\* periodic_backup goes on to sleep(60)
TickFailed == ToSleep

\* db.save_to_file(), up to "if not self._has_changes: return False"
TickCheck ==
  /\ Free("backup")
  /\ IF ~has_changes
     THEN /\ last' = Caught("save_to_file", "False", None)
          /\ ret' = NoData
          /\ ToSleep
          /\ UNCHANGED <<tasks_db, columns, categories, has_changes, file,
                         unsaved>>
     ELSE /\ Enter("backup", Frame("save_to_file", "write", NoTask, None, 0))
          /\ UNCHANGED <<tasks_db, columns, categories, has_changes, file, last,
                         ret, unsaved>>

\* db.save_to_file(): build data, open the file and dump
TickWrite ==
  /\ At("backup", "save_to_file", "write")
  /\ \E io \in WriteOutcomes :
       /\ file' = Written(file, Stamped(Dump(tasks_db, columns, categories)), io)
       /\ IF io = "written"
          THEN /\ Goto("backup", "clear")
               /\ UNCHANGED <<last, ret>>
          ELSE /\ last' = Caught("save_to_file", "False", "OSError")
               /\ ret' = NoData
               /\ TickFailed
  /\ UNCHANGED <<tasks_db, columns, categories, has_changes, unsaved>>

\* db.save_to_file(): self._has_changes = False; return True
TickClear ==
  /\ At("backup", "save_to_file", "clear")
  /\ has_changes' = FALSE
  /\ unsaved' = FALSE
  /\ last' = Caught("save_to_file", "True", None)
  /\ ret' = NoData
  /\ ToSleep
  /\ UNCHANGED <<tasks_db, columns, categories, file>>

\* sleep(60) returns
Wake ==
  /\ pc["backup"] = Sleeping
  /\ pc' = [pc EXCEPT !["backup"] = Idle]
  /\ UNCHANGED <<tasks_db, columns, categories, has_changes, file, lock, last,
                 ret, unsaved, held>>

\* a request thread starts a call: a task added, a task deleted, a task read
Calling(t) ==
  \/ \E task \in PersistTasksGiven : AddPut(t, task, "todo")
  \/ \E id \in TaskIds : DeleteLookup(t, id)
  \/ \E id \in TaskIds : Get(id) /\ Whole(t)

\* a request thread goes on with the call it is in
Continuing(t) ==
  \/ AddAppend(t)
  \/ DeleteRemove(t)

\* the backup thread's loop
Ticking ==
  \/ TickCheck
  \/ TickWrite
  \/ TickClear
  \/ Wake

NextBackup ==
  \/ \E t \in RequestThreads : Calling(t)
  \/ \E t \in RequestThreads : Continuing(t)
  \/ Ticking

\* what is at the backup path when the process starts: nothing, or a snapshot
BackupFiles == {NoFile, JsonObject(OldFormat)}

\* The threads start once db is built. A thread inside a call runs on,
\* sleep(60) returns, and the backup thread gets the lock when it is free again
\* and again; requests come or do not
SpecBackup ==
  /\ \E f \in BackupFiles : Started(f)
  /\ [][NextBackup]_vars
  /\ \A t \in RequestThreads : WF_vars(Continuing(t))
  /\ WF_vars(TickWrite \/ TickClear \/ Wake)
  /\ SF_vars(TickCheck)

\* ---------------------------------------------------------------- endpoints
\* The handlers are "async def" and await nothing: the event loop runs them one
\* at a time, on one thread, beside the backup thread.
Loop == "request1"

\* the endpoints that take the id of a task or of a category from the path
TaskEndpoints == {"update_task", "move_task", "delete_task"}
CategoryEndpoints == {"update_category_endpoint", "delete_category_endpoint"}

\* those that call the store a second time, after the try
TwoCalls == {"update_task", "move_task", "update_category_endpoint"}

\* where a handler is: the endpoint, the statement, the ids of the path and the
\* column and index of the body
Handling(ep, at, tid, cid, col, idx) ==
  [op |-> ep, at |-> at, tid |-> tid, col |-> col, idx |-> idx, cid |-> cid]

\* faulty variant: the first call stands outside any try
AfterLookupUncaught(ep, call) ==
  IF call.res = "KeyError" THEN "KeyError"
  ELSE IF ep \in TwoCalls THEN "call" ELSE "return"

\* try: <first call> except KeyError: raise HTTPException(status_code=404, ...)
\* and after the try the second call, or the return
AfterLookup(ep, call) ==
  IF call.res = "KeyError" THEN "HTTPException(404)"
  ELSE IF ep \in TwoCalls THEN "call" ELSE "return"

\* the call inside the try
Lookup(ep, tid, cid) ==
  \/ ep \in {"update_task", "move_task"} /\ Get(tid)
  \/ ep = "delete_task" /\ Delete(tid)
  \/ ep = "update_category_endpoint" /\ GetCategory(cid)
  \/ ep = "delete_category_endpoint" /\ DeleteCategory(cid)

\* a request reaches its handler on thread t, which runs it up to the end of
\* the try
HandleOn(t, ep, tid, cid, col, idx) ==
  /\ Free(t)
  /\ Lookup(ep, tid, cid)
  /\ pc' = [pc EXCEPT ![t] = Handling(ep, AfterLookup(ep, last'), tid, cid,
                                      col, idx)]
  /\ UNCHANGED <<lock, held>>

Handle(ep, tid, cid, col, idx) == HandleOn(Loop, ep, tid, cid, col, idx)

\* db.update_task(task_id, **update_data), db.move(task_id, new_column_id,
\* new_index), db.update_category(category_id, **update_data)
SecondCallOn(t) ==
  /\ pc[t].at = "call"
  /\ CanAcquire(t)
  /\ \/ pc[t].op = "update_task" /\ UpdateTask(pc[t].tid, [title |-> "B"])
     \/ pc[t].op = "move_task" /\ Move(pc[t].tid, pc[t].col, pc[t].idx)
     \/ pc[t].op = "update_category_endpoint"
          /\ UpdateCategory(pc[t].cid, [name |-> "Chore"])
  /\ pc' = [pc EXCEPT ![t].at = IF last'.res = "KeyError" THEN "KeyError"
                                ELSE "return"]
  /\ UNCHANGED <<lock, held>>

SecondCall == SecondCallOn(Loop)

\* the response goes out: the handler's return value, the HTTPException's
\* status, or 500 for an exception nothing caught
RespondOn(t) ==
  /\ pc[t].at \in {"return", "HTTPException(404)", "KeyError"}
  /\ pc' = [pc EXCEPT ![t] = Idle]
  /\ UNCHANGED <<tasks_db, columns, categories, has_changes, file, lock, last,
                 ret, unsaved, held>>

Respond == RespondOn(Loop)

\* requests in any order, and the backup thread
NextEndpoints ==
  \/ Add(Task(1, "A", None, None), "todo") /\ Whole(Loop)
  \/ AddCategory(Category("c1", "Bug", "red")) /\ Whole(Loop)
  \/ \E ep \in TaskEndpoints, id \in {1, MaxTasks} :
       Handle(ep, id, None, "done", 0)
  \/ \E ep \in CategoryEndpoints, id \in CatIds : Handle(ep, NoTask, id, None, 0)
  \/ SecondCall
  \/ Respond
  \/ Ticking

SpecEndpoints == Init /\ [][NextEndpoints]_vars

\* the scheduling the specification of the store allows for: the handlers on
\* two threads, each store call of a handler a step of its own
NextConcurrent ==
  \/ \E t \in RequestThreads, task \in PersistTasksGiven :
       Add(task, "todo") /\ Whole(t)
  \/ \E t \in RequestThreads, ep \in TaskEndpoints, id \in TaskIds :
       HandleOn(t, ep, id, None, "done", 0)
  \/ \E t \in RequestThreads : SecondCallOn(t)
  \/ \E t \in RequestThreads : RespondOn(t)

SpecConcurrent == Init /\ [][NextConcurrent]_vars

\* ---------------------------------------------------------------- properties

\* some thread is inside a call
Inside(t) == pc[t].at # "idle"

\* this step is the return of a call (the call is then the one in last'): a
\* call of one step, or the last step of a call of several
Returning ==
  \/ pc' = pc
  \/ \E t \in Threads : Inside(t) /\ ~Inside(t)'

\* this step is one in which a call reads the store for its caller: get,
\* serialize and export_to_json, and save_to_file building the data it writes
Reading ==
  \/ pc' = pc /\ last'.op \in {"get", "serialize", "export_to_json"}
  \/ \E t \in Threads : At(t, "save_to_file", "write") /\ pc'[t] # pc[t]
\* the places of the column lists: <<column, position>>
Slots == UNION {{<<c, i>> : i \in 1..Len(columns[c])} : c \in DOMAIN columns}

\* the places task id is listed at
PlacesOf(id) == {p \in Slots : columns[p[1]][p[2]] = id}

\* list s without task id
Without(s, id) == SelectSeq(s, LAMBDA x : x # id)

\* C1: after any sequence of add (fresh id), update, move, delete,
\* empty_column and the category calls, successful or raising KeyError, every
\* task of the task map is listed exactly once, in exactly one column, and every
\* entry of every column is a task of the task map.
C1_Placement ==
  /\ \A id \in DOMAIN tasks_db : Cardinality(PlacesOf(id)) = 1
  /\ \A p \in Slots : columns[p[1]][p[2]] \in DOMAIN tasks_db

\* two tasks share a column after a move, next to a column that was emptied
C1_Witness ==
  /\ last.op = "move"
  /\ DOMAIN columns = ColIds
  /\ columns["done"] = <<2, 1>>
  /\ columns["todo"] = <<>>

\* C3: every task's category_id is None or the id of a category of the
\* category map, whatever add, update_task and the category calls are given.
C3_NoDanglingCategory ==
  \A id \in DOMAIN tasks_db :
    tasks_db[id].category_id \in {None} \cup DOMAIN categories

\* C4: get, update_task, delete and move with a task id that is not in the task
\* map, and get_category, update_category and delete_category with a category id
\* that is not in the category map, raise KeyError and leave the task map, the
\* columns, the category map and the change flag as they were.
C4_NotFoundChangesNothing ==
  [][LET absentTask == /\ last'.op \in {"get", "update_task", "delete", "move"}
                       /\ last'.tid \notin DOMAIN tasks_db
         absentCategory ==
           /\ last'.op \in {"get_category", "update_category", "delete_category"}
           /\ last'.cid \notin DOMAIN categories
     IN  (absentTask \/ absentCategory) =>
           /\ last'.res = "KeyError"
           /\ UNCHANGED <<tasks_db, columns, categories, has_changes>>]_vars

\* a move of a missing task was refused on a store that holds another task
C4_Witness ==
  /\ last.op = "move" /\ last.res = "KeyError"
  /\ DOMAIN tasks_db # {}
  /\ last.tid \notin DOMAIN tasks_db

\* C5: a move(id, col, idx) that returns, with idx >= 0, leaves the task in
\* column col (created if missing) at position min(idx, n), n being the length
\* of col without the task; the task is in no other column, the task map is
\* unchanged, and the other tasks of every column keep their order.
C5_MoveEffect ==
  [][(last'.op = "move" /\ last'.res = "ok" /\ last'.idx >= 0) =>
       LET id == last'.tid
           col == last'.col
           before == IF col \in DOMAIN columns THEN Without(columns[col], id)
                     ELSE <<>>
           n == Len(before)
       IN  /\ DOMAIN columns' = DOMAIN columns \cup {col}
           /\ Len(columns'[col]) = n + 1
           /\ columns'[col][Min(last'.idx, n) + 1] = id
           /\ Without(columns'[col], id) = before
           /\ \A c \in DOMAIN columns \ {col} :
                columns'[c] = Without(columns[c], id)
           /\ tasks_db' = tasks_db]_vars

\* task 1 was moved to index 1 of the only column there ever was: [1, 2] or
\* [2, 1] became [2, 1]
C5_Witness ==
  /\ last = Call("move", 1, None, "todo", 1, "ok")
  /\ DOMAIN columns = {"todo"}
  /\ columns["todo"] = <<2, 1>>

\* C6: a delete_category(c) that returns leaves c out of the category map and of
\* get_all_categories(), gives category_id None to the tasks that referenced
\* c, leaves every other task's category_id alone, and removes or moves no task.
C6_DeleteCategoryEffect ==
  /\ [](last.op = "get_all_categories" => ret = Data(categories))
  /\ [][(last'.op = "delete_category" /\ last'.res = "ok") =>
          /\ last'.cid \notin DOMAIN categories'
          /\ DOMAIN tasks_db' = DOMAIN tasks_db
          /\ \A id \in DOMAIN tasks_db :
               tasks_db'[id] =
                 IF tasks_db[id].category_id = last'.cid
                 THEN [tasks_db[id] EXCEPT !.category_id = None]
                 ELSE tasks_db[id]
          /\ columns' = columns]_vars

\* c1 was deleted on a store with a task of category c2 and a task of none
C6_Witness ==
  /\ last.op = "delete_category" /\ last.res = "ok" /\ last.cid = "c1"
  /\ "c2" \in DOMAIN categories
  /\ \E a, b \in DOMAIN tasks_db :
       tasks_db[a].category_id = "c2" /\ tasks_db[b].category_id = None

\* C8: on a store where every task is listed once, import_from_json of the dict
\* export_to_json has just returned leaves the same task map, the same columns
\* with the same lists (empty ones too) and the same category map; and
\* export_to_json changes nothing of the store, the change flag included.
C8_ExportImportRoundTrip ==
  /\ [][last'.op = "export_to_json" =>
          UNCHANGED <<tasks_db, columns, categories, has_changes>>]_vars
  /\ [][(/\ last.op = "export_to_json"
         /\ last'.op = "import_from_json" /\ last'.col = "ret"
         /\ C1_Placement) =>
          /\ last'.res = "ok"
          /\ tasks_db' = tasks_db
          /\ columns' = columns
          /\ categories' = categories]_vars

\* the export of a store with an empty column, an ordered column, a category
\* and a task with every field set was imported
C8_Witness ==
  /\ last.op = "import_from_json" /\ last.col = "ret" /\ last.res = "ok"
  /\ DOMAIN columns = ColIds
  /\ columns["todo"] = <<2, 1>>
  /\ columns["done"] = <<>>
  /\ DOMAIN tasks_db = {1, 2}
  /\ tasks_db[1] = Task(1, "B", "d", None)
  /\ tasks_db[2] = Task(2, "A", None, "c1")
  /\ "c1" \in DOMAIN categories

\* C9: save_to_file never changes the task map, the columns or the category
\* map; it returns True or False and raises nothing; when the write fails it
\* returns False and the change flag stays set.
C9_SaveKeepsStore ==
  [][last'.op = "save_to_file" =>
       /\ UNCHANGED <<tasks_db, columns, categories>>
       /\ last'.res \in {"True", "False"}
       /\ last'.exc # None =>
            (last'.res = "False" /\ has_changes /\ has_changes')]_vars

\* a save failed while writing, on a store that holds a task
C9_Witness ==
  /\ last.op = "save_to_file" /\ last.exc = "OSError"
  /\ file = Garbage
  /\ DOMAIN tasks_db # {}

\* C10: load_from_file returns False and leaves the store and the change flag
\* alone when there is no file or when reading or parsing it fails; when it
\* returns True, the task map, the columns and the category map are those of
\* the file and nothing else, and the change flag is clear.
C10_LoadEffect ==
  [][last'.op = "load_from_file" =>
       /\ (file.kind \in {"absent", "garbage"}
             \/ last'.exc \in {"OSError", "JSONDecodeError"}) =>
            /\ last'.res = "False"
            /\ UNCHANGED <<tasks_db, columns, categories, has_changes>>
       /\ last'.res = "True" =>
            LET td == GetOr(file.data, "tasks", EmptyDict)
                cd == GetOr(file.data, "columns", EmptyDict)
                gd == GetOr(file.data, "categories", EmptyDict)
            IN  /\ file.kind = "object"
                /\ ~has_changes'
                /\ DOMAIN tasks_db' = DOMAIN td
                /\ \A k \in DOMAIN td :
                     /\ tasks_db'[k].id = td[k]["id"]
                     /\ tasks_db'[k].title = td[k]["title"]
                     /\ tasks_db'[k].description = GetOr(td[k], "description", None)
                     /\ tasks_db'[k].category_id = GetOr(td[k], "category_id", None)
                /\ DOMAIN columns' = DOMAIN cd
                /\ \A c \in DOMAIN cd :
                     columns'[c] = SelectSeq(cd[c], LAMBDA id : id \in DOMAIN td)
                /\ DOMAIN categories' = DOMAIN gd
                /\ \A k \in DOMAIN gd :
                     /\ categories'[k].id = gd[k]["id"]
                     /\ categories'[k].name = gd[k]["name"]
                     /\ categories'[k].color = gd[k]["color"]]_vars

\* a file this store saved earlier, with a task and a category in it, was loaded
C10_Witness ==
  /\ last.op = "load_from_file" /\ last.res = "True"
  /\ "backup_timestamp" \in DOMAIN file.data
  /\ DOMAIN tasks_db # {}
  /\ DOMAIN categories # {}

\* C2: every call runs under the one store lock, alone: two threads are never
\* inside a call together, and whenever get, serialize, export_to_json or
\* save_to_file reads the store, no other thread is part-way through a call
\* and the store is whole (every task in exactly one column, once), whatever
\* the interleaving of the request threads and the backup thread
C2_AtomicUnderLock ==
  /\ [](\A t \in Threads, u \in Threads : Inside(t) /\ Inside(u) => t = u)
  /\ [][Reading =>
          /\ \A t \in Threads : Inside(t) => At(t, "save_to_file", "write")
          /\ C1_Placement]_vars

\* the backup thread is about to write two tasks, just after a request thread's
\* move returned
C2_Witness ==
  /\ At("backup", "save_to_file", "write")
  /\ last.op = "move" /\ last.res = "ok"
  /\ Cardinality(DOMAIN tasks_db) = 2

\* C7: a save_to_file that returns without a write failure returns True
\* exactly when a mutating call has returned successfully since the last
\* successful save_to_file or load_from_file, whatever the interleaving of the
\* request threads and the backup thread
C7_SavedIffChanged ==
  [][Returning /\ last'.op = "save_to_file" /\ last'.exc = None =>
       (last'.res = "True" <=> unsaved)]_vars

\* the backup thread's save has returned True and its next one is refused,
\* while a request thread is part-way through a move
C7_Witness ==
  /\ last = Caught("save_to_file", "True", None)
  /\ file.kind = "object"
  /\ ~unsaved
  /\ \E t \in RequestThreads : At(t, "move", "insert")

\* the columns and the number of tasks each holds in the default dataset
DefaultCounts ==
  [ideas |-> 3, selected |-> 2, in_progress |-> 1, parked |-> 2, done |-> 2]

\* C11: a Database(backup_file) whose load_from_file returned True holds what
\* the file holds, with the change flag clear and no default task; one whose
\* load_from_file returned False holds the default dataset and nothing else
\* (columns ideas, selected, in_progress, parked, done with 3, 2, 1, 2, 2
\* tasks, the task map being those ten tasks), with the change flag set.
C11_StartupPolicy ==
  [][last'.op = "__init__" =>
       IF last'.res = "True"
       THEN /\ file.kind = "object"
            /\ DOMAIN tasks_db' = DOMAIN GetOr(file.data, "tasks", EmptyDict)
            /\ DOMAIN columns' = DOMAIN GetOr(file.data, "columns", EmptyDict)
            /\ DOMAIN categories' =
                 DOMAIN GetOr(file.data, "categories", EmptyDict)
            /\ ~has_changes'
       ELSE /\ DOMAIN columns' = DOMAIN DefaultCounts
            /\ \A c \in DOMAIN DefaultCounts : Len(columns'[c]) = DefaultCounts[c]
            /\ DOMAIN tasks_db' =
                 UNION {{columns'[c][i] : i \in 1..Len(columns'[c])} :
                          c \in DOMAIN columns'}
            /\ has_changes']_vars

\* the file holds the store: importing it gives the three maps as they are,
\* and a file save_to_file wrote is the export of the store with its timestamp
FileHoldsStore ==
  /\ file.kind = "object"
  /\ ImportOutcomes(file) =
       {[db |-> tasks_db, cols |-> columns, cats |-> categories, exc |-> None]}
  /\ "backup_timestamp" \in DOMAIN file.data =>
       file = JsonObject(Stamped(Dump(tasks_db, columns, categories)))

\* this step is the backup thread's, and no write of its fails in it
QuietTick ==
  /\ \A t \in RequestThreads : pc'[t] = pc[t]
  /\ pc'["backup"] # pc["backup"]
  /\ ~(At("backup", "save_to_file", "write") /\ pc'["backup"] = Sleeping)

\* C12: the backup thread calls save_to_file again and again for ever, however
\* many writes fail and whatever the request threads do; and if from some point
\* on no request thread takes a step and no write fails, then from some point
\* on the change flag is clear and the file holds the store: it is the export
\* save_to_file wrote of the store as it is, or the snapshot the store was
\* loaded from and never changed since.
C12_BackupForever ==
  /\ []<><<TickCheck>>_vars
  /\ <>[][QuietTick]_vars =>
       <>[](~has_changes /\ FileHoldsStore)

\* the backup thread sleeps after a save that went through: the store holds
\* the tasks the request threads added and the file holds them
C12_Witness ==
  /\ pc["backup"] = Sleeping
  /\ last = Caught("save_to_file", "True", None)
  /\ TaskIds \subseteq DOMAIN tasks_db
  /\ ~has_changes
  /\ file = JsonObject(Stamped(Dump(tasks_db, columns, categories)))

\* C13: after an import_from_json that returns, whatever the snapshot lists
\* (a task in no column, a task twice in a column or in two columns, an id
\* without a task record), every task of the task map is listed exactly once,
\* in exactly one column.
C13_ImportPlacesEveryTask ==
  [][(last'.op = "import_from_json" /\ last'.res = "ok") =>
       \A id \in DOMAIN tasks_db' :
         Cardinality({p \in Slots' : columns'[p[1]][p[2]] = id}) = 1]_vars


\* the document a returning import_from_json or load_from_file has read
DocumentRead ==
  IF last'.op = "load_from_file" THEN file ELSE OlderSnapshots[last'.col]

\* document d is one of the older format: a JSON object whose task records
\* have id and title, whose category records (if any) are complete, and that
\* has a task record without category_id or has no categories key
OlderFormat(d) ==
  /\ d.kind = "object"
  /\ {"tasks", "columns"} \subseteq DOMAIN d.data
  /\ \A k \in DOMAIN d.data.tasks :
       /\ {"id", "title"} \subseteq DOMAIN d.data.tasks[k]
       /\ d.data.tasks[k].title # None
  /\ "categories" \in DOMAIN d.data =>
       \A g \in DOMAIN d.data.categories :
         /\ DOMAIN d.data.categories[g] = {"id", "name", "color"}
         /\ d.data.categories[g].name # None
         /\ d.data.categories[g].color # None
  /\ \/ "categories" \notin DOMAIN d.data
     \/ \E k \in DOMAIN d.data.tasks : "category_id" \notin DOMAIN d.data.tasks[k]

\* C14: import_from_json, and load_from_file when the file can be read, of a
\* snapshot of the older format does not fail; every task whose record has no
\* category_id gets category_id None, a snapshot without the categories key
\* gives an empty category map, and the columns are the ones the snapshot
\* lists, with the snapshot's tasks in the snapshot's order.
C14_OlderSnapshots ==
  [][(/\ last'.op \in {"import_from_json", "load_from_file"}
      /\ last'.exc # "OSError"
      /\ OlderFormat(DocumentRead)) =>
       LET d == DocumentRead.data
       IN  /\ last'.res \in {"ok", "True"}
           /\ DOMAIN tasks_db' = DOMAIN d.tasks
           /\ \A k \in DOMAIN d.tasks :
                "category_id" \notin DOMAIN d.tasks[k] =>
                  tasks_db'[k].category_id = None
           /\ "categories" \notin DOMAIN d => categories' = EmptyDict
           /\ DOMAIN columns' = DOMAIN d.columns
           /\ \A c \in DOMAIN d.columns :
                columns'[c] = SelectSeq(d.columns[c],
                                        LAMBDA id : id \in DOMAIN d.tasks)]_vars

\* a store with unsaved changes has imported the snapshot whose first task has
\* no category_id and whose second has one; a category of its own is gone
C14_Witness ==
  /\ unsaved
  /\ "c2" \notin DOMAIN categories
  /\ last.op = "import_from_json" /\ last.col = "no_category_id"
  /\ last.res = "ok"
  /\ tasks_db[1].category_id = None
  /\ tasks_db[2].category_id = "c1"
  /\ columns = [todo |-> <<2, 1>>, done |-> <<>>]

\* the calls that only read the store
Readers == {"serialize", "get", "get_category", "get_all_categories",
            "export_to_json"}

\* this step is the caller changing the structure it keeps
CallerStep == ~held.touched /\ held'.touched

\* C15: what serialize and get_all_categories returned is independent of the
\* store: a step of the store that leaves the kept structure to the caller
\* does not change what the caller finds in it, and the caller changing it
\* changes neither the task map, the columns, the category map nor the flag;
\* serialize, get, get_category, get_all_categories and export_to_json, whether
\* they return or raise KeyError, leave these four unchanged.
C15_ReadersIndependent ==
  [][/\ (held.of # None /\ held' = held) => Seen' = Seen
     /\ CallerStep => UNCHANGED <<tasks_db, columns, categories, has_changes>>
     /\ (~CallerStep /\ last'.op \in Readers) =>
          UNCHANGED <<tasks_db, columns, categories, has_changes>>]_vars

\* a caller kept the columns serialize returned and cleared the one that
\* listed task 2, and then task 1 was deleted from the store
C15_Witness ==
  /\ held.of = "serialize" /\ held.touched
  /\ held.data = [done |-> <<Task(1, "A", None, None)>>, todo |-> <<>>]
  /\ last = Call("delete", 1, None, None, 0, "ok")
  /\ columns = [done |-> <<>>, todo |-> <<2>>]

\* the ids listed in list s
IdsOf(s) == {s[i] : i \in 1..Len(s)}

\* C16: empty_column(c) on a column that exists returns; it removes from the
\* task map exactly the tasks c listed, leaves c in the column map with an
\* empty list, and leaves every other column, every other task and the category
\* map as they were. On a column that does not exist it returns without an
\* error and changes neither the task map, the column map nor the category map.
C16_EmptyColumnEffect ==
  [][last'.op = "empty_column" =>
       LET c == last'.col
       IN  /\ last'.res = "ok"
           /\ categories' = categories
           /\ IF c \in DOMAIN columns
              THEN /\ DOMAIN tasks_db' = DOMAIN tasks_db \ IdsOf(columns[c])
                   /\ \A id \in DOMAIN tasks_db' : tasks_db'[id] = tasks_db[id]
                   /\ DOMAIN columns' = DOMAIN columns
                   /\ columns'[c] = <<>>
                   /\ \A o \in DOMAIN columns \ {c} : columns'[o] = columns[o]
              ELSE /\ tasks_db' = tasks_db
                   /\ columns' = columns]_vars

\* column todo was emptied while task 2 was in column done: todo is there,
\* empty, and task 2 and its column are as they were
C16_Witness ==
  /\ last = Call("empty_column", NoTask, None, "todo", 0, "ok")
  /\ columns = [todo |-> <<>>, done |-> <<2>>]
  /\ DOMAIN tasks_db = {2}
  /\ has_changes


\* C17: a delete(id) that returns leaves id out of the task map, and a get of
\* an id that is not in the task map raises KeyError; id is in no column, every
\* other task keeps its record, and every column is the list it was without
\* id: the other tasks stay in their columns, in their order.
C17_DeleteEffect ==
  [][/\ (last'.op = "delete" /\ last'.res = "ok") =>
          LET id == last'.tid
          IN  /\ id \in DOMAIN tasks_db
              /\ DOMAIN tasks_db' = DOMAIN tasks_db \ {id}
              /\ \A o \in DOMAIN tasks_db' : tasks_db'[o] = tasks_db[o]
              /\ DOMAIN columns' = DOMAIN columns
              /\ \A c \in DOMAIN columns : columns'[c] = Without(columns[c], id)
     /\ (last'.op = "get" /\ last'.tid \notin DOMAIN tasks_db) =>
          last'.res = "KeyError"]_vars

\* task 2 was deleted from between tasks 1 and 3, and then looked for
C17_Witness ==
  /\ last = Call("get", 2, None, None, 0, "KeyError")
  /\ DOMAIN tasks_db = {1, 3}
  /\ columns = [todo |-> <<1, 3>>]

\* C18: an add(t, c) of a task whose id is not in the task map returns; get
\* then finds t under its id, t is the last element of column c, which is
\* created if it was missing and whose earlier elements stay in their order,
\* every other column and every other task is unchanged, and the flag is set.
C18_AddEffect ==
  [][last'.op = "add" =>
       LET id == last'.tid
           c == last'.col
           before == IF c \in DOMAIN columns THEN columns[c] ELSE <<>>
       IN  /\ last'.res = "ok"
           /\ id \notin DOMAIN tasks_db
           /\ DOMAIN tasks_db' = DOMAIN tasks_db \cup {id}
           /\ tasks_db'[id] = Task(id, "A", None, None)
           /\ \A o \in DOMAIN tasks_db : tasks_db'[o] = tasks_db[o]
           /\ DOMAIN columns' = DOMAIN columns \cup {c}
           /\ columns'[c] = before \o <<id>>
           /\ \A o \in DOMAIN columns \ {c} : columns'[o] = columns[o]
           /\ has_changes']_vars

\* tasks 3, 2 and 1 were added to column todo in this order, task 1 last
C18_Witness ==
  /\ last = Call("add", 1, None, "todo", 0, "ok")
  /\ columns = [todo |-> <<3, 2, 1>>]
  /\ DOMAIN tasks_db = OrderIds
  /\ has_changes

\* C19: an update_task(id, **kwargs) on a task of the task map gives each
\* field named in kwargs the value given, None included, and an
\* update_category(id, **kwargs) on a category of the category map gives each
\* field named with a value other than None that value; every other field,
\* every other record and every column is unchanged, and the flag is set.
C19_UpdateEffect ==
  [][/\ (last'.op = "update_task" /\ last'.res = "ok") =>
          LET id == last'.tid
              kw == last'.kwargs
          IN  /\ DOMAIN tasks_db' = DOMAIN tasks_db
              /\ \A f \in DOMAIN tasks_db[id] :
                   tasks_db'[id][f] = IF f \in DOMAIN kw THEN kw[f]
                                      ELSE tasks_db[id][f]
              /\ \A o \in DOMAIN tasks_db \ {id} : tasks_db'[o] = tasks_db[o]
              /\ columns' = columns
              /\ categories' = categories
              /\ has_changes'
     /\ (last'.op = "update_category" /\ last'.res = "ok") =>
          LET id == last'.cid
              kw == last'.kwargs
          IN  /\ DOMAIN categories' = DOMAIN categories
              /\ \A f \in DOMAIN categories[id] :
                   categories'[id][f] =
                     IF f \in DOMAIN kw /\ kw[f] # None THEN kw[f]
                     ELSE categories[id][f]
              /\ \A o \in DOMAIN categories \ {id} : categories'[o] = categories[o]
              /\ columns' = columns
              /\ tasks_db' = tasks_db
              /\ has_changes']_vars

\* task 1, added with description "d", was updated with description=None and
\* nothing else, beside task 2 and a category renamed before
C19_Witness ==
  /\ last.op = "update_task" /\ last.res = "ok" /\ last.tid = 1
  /\ DOMAIN last.kwargs = {"description"}
  /\ DOMAIN tasks_db = {1, 2}
  /\ tasks_db[1] = Task(1, "A", None, "c1")
  /\ tasks_db[2] = Task(2, "A", "d", "c1")
  /\ categories = [c1 |-> Category("c1", "Chore", "red")]
  /\ columns = [todo |-> <<2, 1>>]

\* C20: a request to update_task, move_task or delete_task with a task id, or
\* to update_category_endpoint or delete_category_endpoint with a category id,
\* that is not in the store ends in HTTPException(status_code=404), and the
\* handler leaves the task map, the columns, the category map and the flag as
\* they were.
C20_NotFound ==
  [][LET f == pc'[Loop]
     IN  (/\ pc[Loop] = Idle
          /\ \/ f.op \in TaskEndpoints /\ f.tid \notin DOMAIN tasks_db
             \/ f.op \in CategoryEndpoints /\ f.cid \notin DOMAIN categories) =>
           /\ f.at = "HTTPException(404)"
           /\ UNCHANGED <<tasks_db, columns, categories, has_changes>>]_vars

\* with task 1 and category c1 in the store and changes not yet saved, a
\* request to move task 2 has ended in the 404
C20_Witness ==
  /\ pc[Loop] = Handling("move_task", "HTTPException(404)", MaxTasks, None,
                        "done", 0)
  /\ DOMAIN tasks_db = {1}
  /\ DOMAIN categories = {"c1"}
  /\ has_changes

\* what thread t can do next in the specification of the threads
StepOf(t) == IF t = "backup" THEN Backup ELSE Request(t)

\* C21: a thread holds the lock exactly while it is inside a call, so every
\* way out of a call, a KeyError and a caught write failure included, has
\* released it; a call is entered only with the lock held by nobody, never
\* by the entering thread itself, so a lock that is not reentrant would do;
\* and the thread that holds the lock can always take its next step: no
\* interleaving of the request threads and the backup thread ends in a deadlock.
C21_LockDiscipline ==
  /\ [](\A t \in Threads : lock = t <=> Inside(t))
  /\ [][((lock' # lock /\ lock' # NoThread) \/ pc' = pc) => lock = NoThread]_vars
  /\ [](\A t \in Threads : lock = t => ENABLED StepOf(t))

\* a request thread is inside delete, holding the lock, after a save_to_file
\* whose write failed and a move that raised KeyError before it
C21_Witness ==
  /\ lock = "request1"
  /\ At("request1", "delete", "remove")
  /\ last = Call("move", 2, None, None, 0, "KeyError")
  /\ file = Garbage

\* the file cannot be taken in whole: it is no JSON, no JSON object, or an
\* object with a task or category record that does not validate
Malformed(f) ==
  /\ f.kind # "absent"
  /\ \/ f.kind # "object"
     \/ \E k \in DOMAIN GetOr(f.data, "tasks", EmptyDict) :
          ~ValidTask(f.data.tasks[k])
     \/ \E g \in DOMAIN GetOr(f.data, "categories", EmptyDict) :
          ~ValidCategory(f.data.categories[g])

\* C22: a Database(backup_file) that finds a malformed file, one with a valid
\* task record beside an invalid one included, has load_from_file return
\* False and holds exactly the default dataset: the ten default tasks in their
\* five columns, no category, nothing of the file, and every task of the task
\* map listed once in one column.
C22_MalformedGivesDefaults ==
  [][(last'.op = "__init__" /\ Malformed(file)) =>
       LET seeded == AddDefaults(EmptyDict, EmptyDict, 1)
       IN  /\ last'.res = "False"
           /\ tasks_db' = seeded.db
           /\ columns' = seeded.cols
           /\ categories' = EmptyDict
           /\ C1_Placement']_vars

\* the file is one save_to_file wrote, whole
SavedFile == file.kind = "object" /\ "backup_timestamp" \in DOMAIN file.data

\* C23: the change flag is set whenever the store differs from what the last
\* successful save_to_file wrote; in particular, once import_from_json has
\* returned with a store that is not the one the saved file holds, the flag is
\* set, so that the next save_to_file writes the imported state.
C23_ImportMarksChanged ==
  (/\ last.op = "import_from_json" /\ last.res = "ok"
   /\ SavedFile
   /\ file # JsonObject(Stamped(Dump(tasks_db, columns, categories)))) =>
    has_changes

\* no thread is part-way through a call
Quiet == \A t \in Threads : pc[t] = Idle

\* the file is what save_to_file writes of the store as it is
FileIsExport == file = JsonObject(Stamped(Dump(tasks_db, columns, categories)))

\* C24: no mutation is lost to a save_to_file of the backup thread that runs
\* among the request threads' calls. Whenever no call is under way, the flag is
\* set or the file is the export of the store as it is (or nothing was ever
\* changed or saved); every snapshot written is the export of the store at a
\* moment when no request thread is part-way through a call; and the flag is
\* cleared only while the file is the export of the store.
C24_NoLostMutation ==
  /\ []((Quiet /\ ~has_changes) =>
          \/ FileIsExport
          \/ file = NoFile /\ store = <<EmptyDict, EmptyDict, EmptyDict>>)
  /\ [][(file' # file /\ file'.kind = "object") =>
          /\ \A t \in RequestThreads : ~Inside(t)
          /\ file' = JsonObject(Stamped(Dump(tasks_db, columns, categories)))]_vars
  /\ [][(has_changes /\ ~has_changes' /\ last'.op = "save_to_file") =>
          FileIsExport']_vars

\* the backup thread has written two tasks and is about to clear the flag,
\* a request thread's move having returned before the write
C24_Witness ==
  /\ At("backup", "save_to_file", "clear")
  /\ FileIsExport
  /\ has_changes
  /\ last.op = "move" /\ last.res = "ok"
  /\ Cardinality(DOMAIN tasks_db) = 2

C26_MoveAnyIndex ==
  [][(last'.op = "move" /\ last'.tid \in DOMAIN tasks_db) =>
       LET id == last'.tid
           col == last'.col
           before == IF col \in DOMAIN columns THEN Without(columns[col], id)
                     ELSE <<>>
       IN  /\ last'.res = "ok"
           /\ col \in DOMAIN columns'
           /\ Cardinality({i \in 1..Len(columns'[col]) : columns'[col][i] = id}) = 1
           /\ last'.idx > Len(before) => columns'[col][Len(columns'[col])] = id
           /\ \A c \in DOMAIN columns' :
                Without(columns'[c], id) =
                  IF c \in DOMAIN columns THEN Without(columns[c], id) ELSE <<>>]_vars

\* C27: the file is written as one unit: a save_to_file that finds a complete
\* snapshot at the backup path leaves there that snapshot or the complete new
\* one, also when its write fails part-way, so that a load_from_file after a
\* failed save still finds what was saved before.
C27_WholeFileOrNone ==
  [][(last'.op = "save_to_file" /\ file.kind = "object") =>
       \/ file' = file
       \/ file' = JsonObject(Stamped(Dump(tasks_db, columns, categories)))]_vars

\* C28: import_from_json that returns replaces everything the store held: the
\* task map and the category map then hold exactly the snapshot's records,
\* field by field, under the snapshot's keys; the columns are exactly the
\* snapshot's columns, each the listed ids that have a task record, in the
\* listed order, ids without one left out; a column that lists only such ids
\* is there and empty; no task, column or category from before remains.
C28_ImportReplaces ==
  [][\A arg \in DOMAIN OtherSnapshots :
       (last'.op = "import_from_json" /\ last'.col = arg /\ last'.res = "ok") =>
         LET d == OtherSnapshots[arg].data
         IN  /\ DOMAIN tasks_db' = DOMAIN d.tasks
             /\ \A k \in DOMAIN d.tasks : tasks_db'[k] = d.tasks[k]
             /\ DOMAIN categories' = DOMAIN d.categories
             /\ \A g \in DOMAIN d.categories : categories'[g] = d.categories[g]
             /\ DOMAIN columns' = DOMAIN d.columns
             /\ \A c \in DOMAIN d.columns :
                  /\ columns'[c] =
                       SelectSeq(d.columns[c], LAMBDA id : id \in DOMAIN d.tasks)
                  /\ (\A i \in 1..Len(d.columns[c]) :
                        d.columns[c][i] \notin DOMAIN d.tasks) => columns'[c] = <<>>
             /\ \A id \in DOMAIN tasks_db \ DOMAIN d.tasks :
                  /\ id \notin DOMAIN tasks_db'
                  /\ \A c \in DOMAIN columns' :
                       \A i \in 1..Len(columns'[c]) : columns'[c][i] # id
             /\ \A c \in DOMAIN columns \ DOMAIN d.columns : c \notin DOMAIN columns'
             /\ \A g \in DOMAIN categories \ DOMAIN d.categories :
                  g \notin DOMAIN categories']_vars

\* the snapshot with unknown ids was imported over a store that had been
\* changed: task 2 alone in done, ideas there and empty, todo and c1 gone
C28_Witness ==
  /\ last.op = "import_from_json" /\ last.col = "unknown_ids" /\ last.res = "ok"
  /\ has_changes
  /\ columns = [done |-> <<2>>, ideas |-> <<>>]
  /\ DOMAIN tasks_db = {2}
  /\ DOMAIN categories = {"c2"}

====
